---- MODULE Spec2Model ----
(***************************************************************************)
(* Model of teleups: the NUT device client (nut.py), the Telegram notifier *)
(* (telegram_notifier.py) and the UPS monitor loop (ups_monitor.py).       *)
(* Python strings are TLA+ strings; Len, SubSeq and \o act on them as on   *)
(* sequences of characters.                                                *)
(***************************************************************************)
EXTENDS Integers, Sequences, FiniteSets, TLC

VARIABLES
    dev,                            \* the UPS as the NUT server shows it now
    pc,                             \* the statement monitor_ups is at
    fault,                          \* the uncaught exception that ended the process
    last_ups_on_battery_status,     \* UPSMonitor.last_ups_on_battery_status
    last_ups_low_battery_status,    \* UPSMonitor.last_ups_low_battery_status
    current_ups_on_battery_status,  \* local of monitor_ups
    current_ups_low_battery_status, \* local of handle_power_outage
    sent,                           \* history: the title of every POST made, in order
    readings,                       \* history: the values is_ups_on_battery() returned to the loop
    cycle_sent,                     \* history: the POSTs made in the current poll cycle, in full
    first_low,                      \* history: charge <= threshold at the poll that began the latest outage
    dev_changed,                    \* history: the device changed since the latest poll
    res,                            \* the latest call of a NUTClient method and its outcome
    last_log                        \* the latest line the monitor wrote to its log

vars == <<dev, pc, fault, last_ups_on_battery_status, last_ups_low_battery_status,
          current_ups_on_battery_status, current_ups_low_battery_status,
          sent, readings, cycle_sent, first_low, dev_changed, res, last_log>>

\* ------------------------------------------------------------------------
\* Bounds of the model
\* ------------------------------------------------------------------------
MaxTokens == 2
MaxPolls == 4

\* ------------------------------------------------------------------------
\* Python built-ins used by the program
\* ------------------------------------------------------------------------

\* needle in haystack, for two str operands: substring containment
str_contains(haystack, needle) ==
    \E i \in 1..(Len(haystack) - Len(needle) + 1) :
        SubSeq(haystack, i, i + Len(needle) - 1) = needle

IsSpace(c) == c \in {" ", "\t", "\n"}

RECURSIVE SplitFrom(_, _, _)
SplitFrom(s, i, cur) ==
    IF i > Len(s)
    THEN IF cur = "" THEN <<>> ELSE <<cur>>
    ELSE LET c == SubSeq(s, i, i)
         IN  IF IsSpace(c)
             THEN IF cur = ""
                  THEN SplitFrom(s, i + 1, "")
                  ELSE <<cur>> \o SplitFrom(s, i + 1, "")
             ELSE SplitFrom(s, i + 1, cur \o c)

\* str.split() with no argument: split on runs of whitespace, no empty items
str_split(s) == SplitFrom(s, 1, "")

RECURSIVE str_join(_, _)
\* sep.join(items)
str_join(sep, items) ==
    IF items = <<>> THEN ""
    ELSE IF Len(items) = 1 THEN items[1]
    ELSE items[1] \o sep \o str_join(sep, Tail(items))

DigitOf(c) ==
    CASE c = "0" -> 0 [] c = "1" -> 1 [] c = "2" -> 2 [] c = "3" -> 3
      [] c = "4" -> 4 [] c = "5" -> 5 [] c = "6" -> 6 [] c = "7" -> 7
      [] c = "8" -> 8 [] c = "9" -> 9

RECURSIVE ParseDigits(_, _)
ParseDigits(s, acc) ==
    IF s = "" THEN acc
    ELSE ParseDigits(SubSeq(s, 2, Len(s)), 10 * acc + DigitOf(SubSeq(s, 1, 1)))

\* int(s) for a str of decimal digits
py_int(s) == ParseDigits(s, 0)

CharOf(d) ==
    CASE d = 0 -> "0" [] d = 1 -> "1" [] d = 2 -> "2" [] d = 3 -> "3"
      [] d = 4 -> "4" [] d = 5 -> "5" [] d = 6 -> "6" [] d = 7 -> "7"
      [] d = 8 -> "8" [] d = 9 -> "9"

RECURSIVE py_str(_)
\* str(n) / f"{n}" for a non-negative int
py_str(n) == IF n < 10 THEN CharOf(n) ELSE py_str(n \div 10) \o CharOf(n % 10)

\* the empty dict
EmptyDict == [k \in {} |-> ""]

\* d.get(key, default)
dict_get(d, key, default) == IF key \in DOMAIN d THEN d[key] ELSE default

\* ------------------------------------------------------------------------
\* The UPS device as the NUT server shows it
\* ------------------------------------------------------------------------
Absent == "<absent>"

KnownCodes == {"OL", "OB", "LB", "CHRG", "DISCHRG", "BYPS", "OFF", "TRIM", "BOOST"}
UnknownCodes == {"ZZZ", "NOB"}
Codes == KnownCodes \cup UnknownCodes

RECURSIVE TokenLists(_)
TokenLists(n) ==
    IF n = 0 THEN {<<>>}
    ELSE LET shorter == TokenLists(n - 1)
         IN  shorter \cup {<<c>> \o t : c \in Codes, t \in {u \in shorter : Len(u) = n - 1}}

\* ups.status values: lists of at most MaxTokens codes joined by one space,
\* and a few with leading, trailing or doubled white space
StatusValues ==
    {str_join(" ", t) : t \in TokenLists(MaxTokens)}
        \cup {" OL", "OB ", "OL  CHRG", "OL\tLB"}

\* a mapping with the given values; a key whose value is Absent is left out
MkDict(keys, val) == [k \in {x \in keys : val[x] # Absent} |-> val[k]]

MkVars(status, charge, power) ==
    MkDict({"ups.status", "battery.charge", "ups.realpower"},
           [x \in {"ups.status", "battery.charge", "ups.realpower"} |->
               CASE x = "ups.status" -> status
                 [] x = "battery.charge" -> charge
                 [] x = "ups.realpower" -> power])

MkRWVars(low) ==
    MkDict({"battery.charge.low"}, [x \in {"battery.charge.low"} |-> low])

MkDevice(up, status, charge, power, low) ==
    [up |-> up, vars |-> MkVars(status, charge, power), rw |-> MkRWVars(low)]

\* every device state the pure functions are checked on
AllDevices ==
    {MkDevice(up, s, c, p, l) :
        up \in BOOLEAN, s \in StatusValues \cup {Absent},
        c \in {Absent, "15", "20", "80"}, p \in {Absent, "50"},
        l \in {Absent, "20"}}

\* ------------------------------------------------------------------------
\* nut.py: NUTClient
\* ------------------------------------------------------------------------

\* the outcome of a call: the exception it raised ("none" when it returned)
\* and the value it returned
Return(v) == [exc |-> "none", val |-> v]
Raise(e, v) == [exc |-> e, val |-> v]

\* PyNUTClient.GetUPSVars(ups=...): raises when the server cannot be reached
PyNUT_GetUPSVars(d) ==
    IF d.up THEN Return(d.vars) ELSE Raise("PyNUTError", EmptyDict)

\* PyNUTClient.GetRWVars(ups=...)
PyNUT_GetRWVars(d) ==
    IF d.up THEN Return(d.rw) ELSE Raise("PyNUTError", EmptyDict)

\* mutant: the exception of the operation is let through
handle_operation_reraising(op) ==
    [exc |-> op.exc, isnone |-> FALSE, val |-> op.val]

\* NUTClient.__handle_operation: the result of the operation, None on any
\* Exception; isnone stands for the None result
handle_operation(op) ==
    IF op.exc = "none"
    THEN [exc |-> "none", isnone |-> FALSE, val |-> op.val]
    ELSE [exc |-> "none", isnone |-> TRUE, val |-> EmptyDict]

\* NUTClient.__decode_byte_dict: every key and value decoded from UTF-8
decode_byte_dict(byte_dict) == [k \in DOMAIN byte_dict |-> byte_dict[k]]

\* "response if response": None and the empty dict are both falsy
Truthy(response) == ~response.isnone /\ DOMAIN response.val # {}

DecodeOrEmpty(response) ==
    IF response.exc # "none" THEN Raise(response.exc, EmptyDict)
    ELSE IF Truthy(response) THEN Return(decode_byte_dict(response.val))
    ELSE Return(EmptyDict)

get_ups_read_write_vars(d) == DecodeOrEmpty(handle_operation(PyNUT_GetRWVars(d)))

get_ups_vars(d) == DecodeOrEmpty(handle_operation(PyNUT_GetUPSVars(d)))

get_current_power_draw(d) ==
    LET ups_vars == get_ups_vars(d)
    IN  IF ups_vars.exc # "none" THEN Raise(ups_vars.exc, 0)
        ELSE Return(py_int(dict_get(ups_vars.val, "ups.realpower", "0")))

get_battery_charge_percentage(d) ==
    LET ups_vars == get_ups_vars(d)
    IN  IF ups_vars.exc # "none" THEN Raise(ups_vars.exc, 0)
        ELSE IF DOMAIN ups_vars.val # {}
        THEN IF "battery.charge" \in DOMAIN ups_vars.val
             THEN Return(py_int(ups_vars.val["battery.charge"]))
             ELSE Return(0)
        ELSE Return(0)

get_battery_charge_low_percentage(d) ==
    LET ups_rwvars == get_ups_read_write_vars(d)
    IN  IF ups_rwvars.exc # "none" THEN Raise(ups_rwvars.exc, 0)
        ELSE IF DOMAIN ups_rwvars.val # {}
        THEN IF "battery.charge.low" \in DOMAIN ups_rwvars.val
             THEN Return(py_int(ups_rwvars.val["battery.charge.low"]))
             ELSE Return(0)
        ELSE Return(0)

\* mutant: without variables the UPS is taken to be on battery
is_ups_on_battery_fail_closed(d) ==
    LET ups_vars == get_ups_vars(d)
    IN  IF ups_vars.exc # "none" THEN Raise(ups_vars.exc, FALSE)
        ELSE IF DOMAIN ups_vars.val # {}
        THEN IF "ups.status" \in DOMAIN ups_vars.val
             THEN Return(str_contains(ups_vars.val["ups.status"], "OB"))
             ELSE Raise("TypeError", FALSE)
        ELSE Return(TRUE)

\* 'OB' in ups_vars.get('ups.status') if ups_vars else False
\* get() without a default gives None, and 'OB' in None raises TypeError
is_ups_on_battery(d) ==
    LET ups_vars == get_ups_vars(d)
    IN  IF ups_vars.exc # "none" THEN Raise(ups_vars.exc, FALSE)
        ELSE IF DOMAIN ups_vars.val # {}
        THEN IF "ups.status" \in DOMAIN ups_vars.val
             THEN Return(str_contains(ups_vars.val["ups.status"], "OB"))
             ELSE Raise("TypeError", FALSE)
        ELSE Return(FALSE)

is_ups_battery_low(d, ignore_ob) ==
    LET on_battery == is_ups_on_battery(d)
        charge == get_battery_charge_percentage(d)
        low == get_battery_charge_low_percentage(d)
    IN  IF on_battery.exc # "none" THEN Raise(on_battery.exc, FALSE)
        ELSE IF ~on_battery.val /\ ~ignore_ob THEN Return(FALSE)
        ELSE IF charge.exc # "none" THEN Raise(charge.exc, FALSE)
        ELSE IF low.exc # "none" THEN Raise(low.exc, FALSE)
        ELSE Return(charge.val <= low.val)

status_map ==
    [code \in KnownCodes |->
        CASE code = "OL" -> "On Line"
          [] code = "OB" -> "On Battery"
          [] code = "LB" -> "Low Battery"
          [] code = "CHRG" -> "Charging"
          [] code = "DISCHRG" -> "Discharging"
          [] code = "BYPS" -> "Bypass"
          [] code = "OFF" -> "Offline"
          [] code = "TRIM" -> "SmartTrim"
          [] code = "BOOST" -> "SmartBoost"]

\* mutant: unknown codes are not filtered out
known_statuses_unfiltered(status_descriptions) == status_descriptions

\* [desc for desc in status_descriptions if desc != 'Unknown status']
known_statuses(status_descriptions) ==
    SelectSeq(status_descriptions, LAMBDA desc : desc # "Unknown status")

get_ups_status(d) ==
    LET ups_vars == get_ups_vars(d)
    IN  IF ups_vars.exc # "none" THEN Raise(ups_vars.exc, "")
        ELSE IF DOMAIN ups_vars.val # {}
        THEN LET status_codes == str_split(dict_get(ups_vars.val, "ups.status", ""))
                 status_descriptions ==
                     [i \in 1..Len(status_codes) |->
                         dict_get(status_map, status_codes[i], "Unknown status")]
                 known == known_statuses(status_descriptions)
             IN  IF known # <<>>
                 THEN Return(str_join(", ", known))
                 ELSE Return("Unknown status")
        ELSE Return("Unknown status")

\* ------------------------------------------------------------------------
\* telegram_notifier.py: TelegramNotifier
\* ------------------------------------------------------------------------

\* what requests.post followed by raise_for_status can do
HttpOutcomes == {"2xx", "http_error", "transport_error"}

\* mutant: a failed POST is tried a second time
send_notification_retrying(msg_title, msg, http) ==
    LET post == [title |-> msg_title,
                 text |-> "<b>" \o msg_title \o "</b>\n\n" \o msg
                          \o "\n\n<b>Your faithful employee,\nTeleUPS</b>",
                 parse_mode |-> "HTML", http |-> http]
    IN  [exc |-> "none",
         posts |-> IF http = "2xx" THEN <<post>> ELSE <<post, post>>,
         log |-> IF http = "2xx" THEN "INFO" ELSE "ERROR"]

\* TelegramNotifier.send_notification: one POST; a RequestException is
\* logged and swallowed
send_notification(msg_title, msg, http) ==
    LET post_msg == "Your faithful employee,\nTeleUPS"
        full_msg == "<b>" \o msg_title \o "</b>\n\n" \o msg \o "\n\n<b>" \o post_msg \o "</b>"
    IN  [exc |-> "none",
         posts |-> <<[title |-> msg_title, text |-> full_msg,
                      parse_mode |-> "HTML", http |-> http]>>,
         log |-> IF http = "2xx" THEN "INFO" ELSE "ERROR"]

\* ------------------------------------------------------------------------
\* ups_monitor.py: UPSMonitor
\* ------------------------------------------------------------------------

\* mutant: the body reports the strict low battery check
send_ups_status_notification_strict_body(d, title, http) ==
    LET msg_title == title \o "\n" \o "UPS Status Information"
        charge == get_battery_charge_percentage(d)
        status == get_ups_status(d)
        low == is_ups_battery_low(d, FALSE)
        power == get_current_power_draw(d)
        msg == "Battery Percentage: <b>" \o py_str(charge.val) \o "%</b>\n"
               \o "Status: <b>" \o status.val \o "</b>\n"
               \o "Low Battery: <b>" \o (IF low.val THEN "Yes" ELSE "No") \o "</b>\n"
               \o "Power: <b>" \o py_str(power.val) \o " watt</b>"
        NoPost(e) == [exc |-> e, posts |-> <<>>, log |-> "none"]
    IN  IF charge.exc # "none" THEN NoPost(charge.exc)
        ELSE IF status.exc # "none" THEN NoPost(status.exc)
        ELSE IF low.exc # "none" THEN NoPost(low.exc)
        ELSE IF power.exc # "none" THEN NoPost(power.exc)
        ELSE send_notification(msg_title, msg, http)

\* UPSMonitor.send_ups_status_notification: the body is built from four
\* queries of the device, then handed to the notifier
send_ups_status_notification(d, title, http) ==
    LET msg_title == title \o "\n" \o "UPS Status Information"
        charge == get_battery_charge_percentage(d)
        status == get_ups_status(d)
        low == is_ups_battery_low(d, TRUE)
        power == get_current_power_draw(d)
        msg == "Battery Percentage: <b>" \o py_str(charge.val) \o "%</b>\n"
               \o "Status: <b>" \o status.val \o "</b>\n"
               \o "Low Battery: <b>" \o (IF low.val THEN "Yes" ELSE "No") \o "</b>\n"
               \o "Power: <b>" \o py_str(power.val) \o " watt</b>"
        NoPost(e) == [exc |-> e, posts |-> <<>>, log |-> "none"]
    IN  IF charge.exc # "none" THEN NoPost(charge.exc)
        ELSE IF status.exc # "none" THEN NoPost(status.exc)
        ELSE IF low.exc # "none" THEN NoPost(low.exc)
        ELSE IF power.exc # "none" THEN NoPost(power.exc)
        ELSE send_notification(msg_title, msg, http)

\* mutant: the monitor starts out believing the UPS is on battery
InitialOnBattery_started_true == TRUE

\* UPSMonitor.__init__, line 20
InitialOnBattery == FALSE

\* mutant: the outage test forgets the previous status
IsPowerOutage_every_reading(last, current) == current

\* monitor_ups, line 86: the test for a power outage
IsPowerOutage(last, current) == ~last /\ current

\* mutant: the restoration test forgets the previous status
IsPowerRestoration_every_reading(last, current) == ~current

\* monitor_ups, line 89: the test for a power restoration
IsPowerRestoration(last, current) == last /\ ~current

\* mutant: the "not" of the low battery test is lost
IsNewLowBattery_lost_not(current_low, last_low) == current_low /\ last_low

\* handle_power_outage, line 64: the test for the low battery notification
IsNewLowBattery(current_low, last_low) == current_low /\ ~last_low

\* the device states the monitor loop is run against
MonDevices ==
    {MkDevice(TRUE, s, c, "50", "20") : s \in {"OL", "OB"}, c \in {"15", "80"}}
        \cup {MkDevice(TRUE, Absent, "80", "50", "20"),
              MkDevice(FALSE, "OL", "80", "50", "20")}

\* charge <= threshold as the device shows it
DeviceLow(d) ==
    get_battery_charge_percentage(d).val <= get_battery_charge_low_percentage(d).val

LoopPcs == {"poll", "outage", "recheck", "low_notify", "low_store",
            "restoration", "update", "sleep"}

NoCall == [fn |-> "none"]

\* UPSMonitor.__init__
InitMonitor ==
    /\ pc = "poll"
    /\ fault = "none"
    /\ last_ups_on_battery_status = InitialOnBattery
    /\ last_ups_low_battery_status = FALSE
    /\ current_ups_on_battery_status = FALSE
    /\ current_ups_low_battery_status = FALSE
    /\ sent = <<>>
    /\ readings = <<>>
    /\ cycle_sent = <<>>
    /\ first_low = FALSE
    /\ dev_changed = FALSE
    /\ res = NoCall
    /\ last_log = "Monitor started"

Init ==
    /\ dev \in MonDevices
    /\ InitMonitor

\* an uncaught exception ends the process
Crash(e, log) ==
    /\ pc' = "crashed"
    /\ fault' = e
    /\ last_log' = log
    /\ UNCHANGED <<dev, last_ups_on_battery_status, last_ups_low_battery_status,
                   current_ups_on_battery_status, current_ups_low_battery_status,
                   sent, readings, cycle_sent, first_low, dev_changed, res>>

\* the posts of one notification reach the Telegram API
Post(posts) ==
    /\ sent' = sent \o [i \in 1..Len(posts) |-> posts[i].title]
    /\ cycle_sent' = cycle_sent \o posts

\* monitor_ups, lines 83-90: query the device and pick the handler
PollStep(limit) ==
    /\ pc = "poll"
    /\ Len(readings) < limit
    /\ LET r == is_ups_on_battery(dev)
       IN  IF r.exc # "none"
           THEN Crash(r.exc, last_log)
           ELSE /\ current_ups_on_battery_status' = r.val
                /\ pc' = IF IsPowerOutage(last_ups_on_battery_status, r.val)
                         THEN "outage"
                         ELSE IF IsPowerRestoration(last_ups_on_battery_status, r.val)
                         THEN "restoration"
                         ELSE "update"
                /\ readings' = Append(readings, r.val)
                /\ cycle_sent' = <<>>
                /\ dev_changed' = FALSE
                /\ first_low' = IF ~last_ups_on_battery_status /\ r.val
                                THEN DeviceLow(dev) ELSE first_low
                /\ UNCHANGED <<dev, fault, last_ups_on_battery_status,
                               last_ups_low_battery_status,
                               current_ups_low_battery_status, sent, res, last_log>>

Poll == PollStep(MaxPolls)

\* handle_power_outage, lines 58-59
Outage ==
    /\ pc = "outage"
    /\ \E http \in HttpOutcomes :
         LET r == send_ups_status_notification(dev, "Power outage!", http)
         IN  IF r.exc # "none"
             THEN Crash(r.exc, "UPS status changed (Power Outage)")
             ELSE /\ Post(r.posts)
                  /\ last_log' = "UPS status notification sent"
                  /\ pc' = "recheck"
                  /\ UNCHANGED <<dev, fault, last_ups_on_battery_status,
                                 last_ups_low_battery_status,
                                 current_ups_on_battery_status,
                                 current_ups_low_battery_status,
                                 readings, first_low, dev_changed, res>>

\* handle_power_outage, lines 61-62
Recheck ==
    /\ pc = "recheck"
    /\ LET current_battery_perc == get_battery_charge_percentage(dev)
           low == is_ups_battery_low(dev, FALSE)
       IN  IF current_battery_perc.exc # "none" \/ low.exc # "none"
           THEN Crash(IF current_battery_perc.exc # "none"
                      THEN current_battery_perc.exc ELSE low.exc, last_log)
           ELSE /\ current_ups_low_battery_status' = low.val
                /\ pc' = "low_notify"
                /\ UNCHANGED <<dev, fault, last_ups_on_battery_status,
                               last_ups_low_battery_status,
                               current_ups_on_battery_status, sent,
                               readings, cycle_sent, first_low, dev_changed, res, last_log>>

\* handle_power_outage, lines 64-66
LowNotify ==
    /\ pc = "low_notify"
    /\ \E http \in HttpOutcomes :
         LET r == send_ups_status_notification(dev, "Low battery!", http)
         IN  IF IsNewLowBattery(current_ups_low_battery_status,
                                last_ups_low_battery_status)
             THEN IF r.exc # "none"
                  THEN Crash(r.exc, "Low battery status "
                                 \o py_str(get_battery_charge_percentage(dev).val) \o "%")
                  ELSE /\ Post(r.posts)
                       /\ last_log' = "UPS status notification sent"
                       /\ pc' = "low_store"
                       /\ UNCHANGED <<dev, fault, last_ups_on_battery_status,
                                      last_ups_low_battery_status,
                                      current_ups_on_battery_status,
                                      current_ups_low_battery_status,
                                      readings, first_low, dev_changed, res>>
             ELSE /\ pc' = "low_store"
                  /\ UNCHANGED <<dev, fault, last_ups_on_battery_status,
                                 last_ups_low_battery_status,
                                 current_ups_on_battery_status,
                                 current_ups_low_battery_status, sent,
                                 readings, cycle_sent, first_low, dev_changed, res, last_log>>

\* mutant: the flag is only ever raised, never lowered
LowStore_sticky ==
    /\ pc = "low_store"
    /\ last_ups_low_battery_status' =
           (last_ups_low_battery_status \/ current_ups_low_battery_status)
    /\ pc' = "update"
    /\ UNCHANGED <<dev, fault, last_ups_on_battery_status, current_ups_on_battery_status,
                   current_ups_low_battery_status, sent, readings,
                   cycle_sent, first_low, dev_changed, res, last_log>>

\* mutant: the flag is stored only when the notification was sent
LowStore_only_when_notified ==
    /\ pc = "low_store"
    /\ last_ups_low_battery_status' =
           IF IsNewLowBattery(current_ups_low_battery_status, last_ups_low_battery_status)
           THEN current_ups_low_battery_status
           ELSE last_ups_low_battery_status
    /\ pc' = "update"
    /\ UNCHANGED <<dev, fault, last_ups_on_battery_status, current_ups_on_battery_status,
                   current_ups_low_battery_status, sent, readings,
                   cycle_sent, first_low, dev_changed, res, last_log>>

\* handle_power_outage, line 68
LowStore ==
    /\ pc = "low_store"
    /\ last_ups_low_battery_status' = current_ups_low_battery_status
    /\ pc' = "update"
    /\ UNCHANGED <<dev, fault, last_ups_on_battery_status, current_ups_on_battery_status,
                   current_ups_low_battery_status, sent, readings,
                   cycle_sent, first_low, dev_changed, res, last_log>>

\* mutant: the restoration handler goes on into the low battery check
Restoration_then_low_check ==
    /\ pc = "restoration"
    /\ \E http \in HttpOutcomes :
         LET r == send_ups_status_notification(dev, "Power restoration!", http)
         IN  IF r.exc # "none"
             THEN Crash(r.exc, "UPS status changed (Power Restoration)")
             ELSE /\ Post(r.posts)
                  /\ last_log' = "UPS status notification sent"
                  /\ pc' = "recheck"
                  /\ UNCHANGED <<dev, fault, last_ups_on_battery_status,
                                 last_ups_low_battery_status,
                                 current_ups_on_battery_status,
                                 current_ups_low_battery_status,
                                 readings, first_low, dev_changed, res>>

\* handle_power_restoration, lines 74-75
Restoration ==
    /\ pc = "restoration"
    /\ \E http \in HttpOutcomes :
         LET r == send_ups_status_notification(dev, "Power restoration!", http)
         IN  IF r.exc # "none"
             THEN Crash(r.exc, "UPS status changed (Power Restoration)")
             ELSE /\ Post(r.posts)
                  /\ last_log' = "UPS status notification sent"
                  /\ pc' = "update"
                  /\ UNCHANGED <<dev, fault, last_ups_on_battery_status,
                                 last_ups_low_battery_status,
                                 current_ups_on_battery_status,
                                 current_ups_low_battery_status,
                                 readings, first_low, dev_changed, res>>

\* mutant: the assignment of line 92 is missing
Update_keeps_old ==
    /\ pc = "update"
    /\ pc' = "sleep"
    /\ UNCHANGED <<dev, fault, last_ups_on_battery_status, last_ups_low_battery_status,
                   current_ups_on_battery_status, current_ups_low_battery_status,
                   sent, readings, cycle_sent, first_low, dev_changed, res, last_log>>

\* monitor_ups, line 92
Update ==
    /\ pc = "update"
    /\ last_ups_on_battery_status' = current_ups_on_battery_status
    /\ pc' = "sleep"
    /\ UNCHANGED <<dev, fault, last_ups_low_battery_status, current_ups_on_battery_status,
                   current_ups_low_battery_status, sent, readings,
                   cycle_sent, first_low, dev_changed, res, last_log>>

\* monitor_ups, line 93: time.sleep(2), then the next iteration
SleepStep ==
    /\ pc = "sleep"
    /\ pc' = "poll"
    /\ UNCHANGED <<fault, last_ups_on_battery_status, last_ups_low_battery_status,
                   current_ups_on_battery_status, current_ups_low_battery_status,
                   sent, readings, cycle_sent, first_low, res, last_log>>

\* mutant: the loop is left after the sleep
Sleep_leaves_loop ==
    /\ pc = "sleep"
    /\ pc' = "done"
    /\ UNCHANGED <<dev, fault, last_ups_on_battery_status, last_ups_low_battery_status,
                   current_ups_on_battery_status, current_ups_low_battery_status,
                   sent, readings, cycle_sent, first_low, dev_changed, res, last_log>>

Sleep == SleepStep /\ UNCHANGED <<dev, dev_changed>>

\* mutant: the interrupt is taken only during the sleep
Interrupt_only_asleep ==
    /\ pc = "sleep"
    /\ pc' = "done"
    /\ last_log' = "Script terminated by user."
    /\ UNCHANGED <<dev, fault, last_ups_on_battery_status, last_ups_low_battery_status,
                   current_ups_on_battery_status, current_ups_low_battery_status,
                   sent, readings, cycle_sent, first_low, dev_changed, res>>

\* monitor_ups, lines 95-96: KeyboardInterrupt ends the loop
Interrupt ==
    /\ pc \in LoopPcs
    /\ pc' = "done"
    /\ last_log' = "Script terminated by user."
    /\ UNCHANGED <<dev, fault, last_ups_on_battery_status, last_ups_low_battery_status,
                   current_ups_on_battery_status, current_ups_low_battery_status,
                   sent, readings, cycle_sent, first_low, dev_changed, res>>

\* the environment: the UPS, or the reachability of its server, changes
DeviceChange ==
    /\ pc \in LoopPcs
    /\ dev' \in MonDevices \ {dev}
    /\ dev_changed' = TRUE
    /\ UNCHANGED <<pc, fault, last_ups_on_battery_status, last_ups_low_battery_status,
                   current_ups_on_battery_status, current_ups_low_battery_status,
                   sent, readings, cycle_sent, first_low, res, last_log>>

\* one statement of the loop body, lines 82-93
LoopStep ==
    Poll \/ Outage \/ Recheck \/ LowNotify \/ LowStore \/ Restoration \/ Update \/ Sleep

Next ==
    \/ Poll
    \/ Outage
    \/ Recheck
    \/ LowNotify
    \/ LowStore
    \/ Restoration
    \/ Update
    \/ Sleep
    \/ Interrupt
    \/ DeviceChange

Spec == Init /\ [][Next]_vars

\* ------------------------------------------------------------------------
\* The end-to-end scenario: the device follows a script, one entry per poll
\* ------------------------------------------------------------------------
OnLineDevice(charge) == MkDevice(TRUE, "OL", charge, "50", "20")
OnBatteryDevice(charge) == MkDevice(TRUE, "OB", charge, "50", "20")

\* OL at 80% for three polls, OB at 15% for two polls, then OL again
\* (whatever the charge is by then)
Script ==
    <<{OnLineDevice("80")}, {OnLineDevice("80")}, {OnLineDevice("80")},
      {OnBatteryDevice("15")}, {OnBatteryDevice("15")},
      {OnLineDevice("15"), OnLineDevice("20"), OnLineDevice("80")}>>

InitE2E ==
    /\ dev \in Script[1]
    /\ InitMonitor

PollScripted == PollStep(Len(Script))

\* the device moves to its next scripted state while the loop sleeps
SleepScripted ==
    /\ SleepStep
    /\ Len(readings) < Len(Script)
    /\ dev' \in Script[Len(readings) + 1]
    /\ dev_changed' = FALSE

NextE2E ==
    \/ PollScripted
    \/ Outage
    \/ Recheck
    \/ LowNotify
    \/ LowStore
    \/ Restoration
    \/ Update
    \/ SleepScripted
    \/ Interrupt

SpecE2E == InitE2E /\ [][NextE2E]_vars

\* ------------------------------------------------------------------------
\* The NUTClient methods, each called on every device state
\* ------------------------------------------------------------------------
InitNut ==
    /\ dev \in AllDevices
    /\ InitMonitor

Call(fn, arg, out) ==
    /\ res' = [fn |-> fn, arg |-> arg, out |-> out]
    /\ UNCHANGED <<dev, pc, fault, last_ups_on_battery_status,
                   last_ups_low_battery_status, current_ups_on_battery_status,
                   current_ups_low_battery_status, sent, readings, cycle_sent,
                   first_low, dev_changed, last_log>>

CallGetUpsVars == Call("get_ups_vars", FALSE, get_ups_vars(dev))

CallGetUpsReadWriteVars ==
    Call("get_ups_read_write_vars", FALSE, get_ups_read_write_vars(dev))

CallGetCurrentPowerDraw ==
    Call("get_current_power_draw", FALSE, get_current_power_draw(dev))

CallGetBatteryChargePercentage ==
    Call("get_battery_charge_percentage", FALSE, get_battery_charge_percentage(dev))

CallGetBatteryChargeLowPercentage ==
    Call("get_battery_charge_low_percentage", FALSE,
         get_battery_charge_low_percentage(dev))

CallIsUpsOnBattery == Call("is_ups_on_battery", FALSE, is_ups_on_battery(dev))

CallIsUpsBatteryLow ==
    \E ignore_ob \in BOOLEAN :
        Call("is_ups_battery_low", ignore_ob, is_ups_battery_low(dev, ignore_ob))

CallGetUpsStatus == Call("get_ups_status", FALSE, get_ups_status(dev))

NextNut ==
    \/ CallGetUpsVars
    \/ CallGetUpsReadWriteVars
    \/ CallGetCurrentPowerDraw
    \/ CallGetBatteryChargePercentage
    \/ CallGetBatteryChargeLowPercentage
    \/ CallIsUpsOnBattery
    \/ CallIsUpsBatteryLow
    \/ CallGetUpsStatus

SpecNut == InitNut /\ [][NextNut]_vars

\* ------------------------------------------------------------------------
\* Properties of the monitor loop
\* ------------------------------------------------------------------------

\* the first line of a text
FirstLine(text) ==
    LET ends == {i \in 1..Len(text) : SubSeq(text, i, i) = "\n"}
    IN  IF ends = {} THEN text
        ELSE SubSeq(text, 1, (CHOOSE i \in ends : \A j \in ends : i <= j) - 1)

\* the notification titles of a list of message titles
Titles(msg_titles) == [i \in 1..Len(msg_titles) |-> FirstLine(msg_titles[i])]

\* how often a notification with this title is among the message titles
Count(msg_titles, title) ==
    Cardinality({i \in 1..Len(msg_titles) : FirstLine(msg_titles[i]) = title})

CycleTitles == Titles([i \in 1..Len(cycle_sent) |-> cycle_sent[i].title])

\* the value before reading i, False before the first one
Before(rs, i) == IF i = 1 THEN FALSE ELSE rs[i - 1]

UpEdges(rs) == Cardinality({i \in 1..Len(rs) : ~Before(rs, i) /\ rs[i]})

DownEdges(rs) == Cardinality({i \in 1..Len(rs) : Before(rs, i) /\ ~rs[i]})

\* the handlers of the cycle have run, line 92 is next or done
CycleHandled == pc \in {"update", "sleep"}

\* C1: after every completed poll cycle the number of "Power outage!"
\* notifications sent equals the number of false->true edges in the readings
\* so far (False being the value before the first reading), and a cycle
\* whose previous status and reading are both true sends none.
C1_OutagePerRisingEdge ==
    /\ CycleHandled =>
           Count(sent, "Power outage!") = UpEdges(readings)
    /\ (pc = "update" /\ last_ups_on_battery_status /\ current_ups_on_battery_status) =>
           Count(CycleTitles, "Power outage!") = 0

C1_Witness ==
    /\ pc = "update"
    /\ last_ups_on_battery_status /\ current_ups_on_battery_status
    /\ UpEdges(readings) = 1
    /\ Count(sent, "Power outage!") = 1
    /\ Len(readings) >= 3

\* C2: after every completed poll cycle the number of "Power restoration!"
\* notifications sent equals the number of true->false edges in the
\* readings so far, and none is sent in a cycle whose previous status is
\* false or whose reading is true.
C2_RestorationPerFallingEdge ==
    /\ CycleHandled =>
           Count(sent, "Power restoration!") = DownEdges(readings)
    /\ (pc = "update" /\ (~last_ups_on_battery_status \/ current_ups_on_battery_status)) =>
           Count(CycleTitles, "Power restoration!") = 0

C2_Witness ==
    /\ pc = "sleep"
    /\ DownEdges(readings) = 2
    /\ Count(sent, "Power restoration!") = 2

\* C3 (as claimed): in every outage, the first one or a later one, that
\* begins with the device on battery and charge <= threshold, the cycle of
\* its first poll sends exactly one "Low battery!", and the later polls of
\* the outage send none. The device is taken to hold still during the cycle.
C3_LowBatteryOncePerOutage ==
    /\ (pc = "update" /\ ~last_ups_on_battery_status /\ current_ups_on_battery_status
            /\ first_low /\ ~dev_changed) =>
           Count(CycleTitles, "Low battery!") = 1
    /\ (pc = "update" /\ last_ups_on_battery_status /\ current_ups_on_battery_status) =>
           Count(CycleTitles, "Low battery!") = 0

\* C4 (as claimed): while every reading since the start has been true, no
\* notification is sent.
C4_NoNotificationForInitialOutage ==
    (readings # <<>> /\ \A i \in 1..Len(readings) : readings[i]) => sent = <<>>

\* C4 (amended): a first poll that reads on-battery is handled as a
\* false->true edge and its cycle sends "Power outage!" first; while every
\* reading since the start has been false, nothing is sent.
C4_InitialOutageIsNotified ==
    /\ (CycleHandled /\ readings # <<>> /\ readings[1]) =>
           (sent # <<>> /\ FirstLine(sent[1]) = "Power outage!")
    /\ (readings # <<>> /\ \A i \in 1..Len(readings) : ~readings[i]) => sent = <<>>

C4_Witness ==
    /\ pc = "update"
    /\ readings = <<TRUE>>
    /\ Titles(sent) = <<"Power outage!">>

\* C5: in the scripted scenario (OL at 80% for 3 polls, OB at 15% for 2
\* polls, OL again; threshold 20%) the notifications sent by the end of the
\* sixth cycle are exactly "Power outage!", "Low battery!",
\* "Power restoration!", in that order.
C5_EndToEndScenario ==
    (Len(readings) = 6 /\ CycleHandled) =>
        Titles(sent) = <<"Power outage!", "Low battery!", "Power restoration!">>

C5_Witness ==
    /\ Len(readings) = 6
    /\ pc = "sleep"
    /\ readings = <<FALSE, FALSE, FALSE, TRUE, TRUE, FALSE>>
    /\ Len(sent) = 3

\* ------------------------------------------------------------------------
\* Properties of the NUTClient methods
\* ------------------------------------------------------------------------

\* the mappings the device hands out: empty when the server is unreachable
ShownVars(d) == IF d.up THEN d.vars ELSE EmptyDict
ShownRWVars(d) == IF d.up THEN d.rw ELSE EmptyDict

\* the white-space separated tokens of ups.status, none when there is no status
StatusTokens(d) ==
    IF "ups.status" \in DOMAIN ShownVars(d)
    THEN LET toks == str_split(ShownVars(d)["ups.status"])
         IN  {toks[i] : i \in 1..Len(toks)}
    ELSE {}

\* C6 (as claimed): on every variables mapping is_on_battery() returns
\* without raising, and returns true exactly when "OB" is one of the
\* space-separated tokens of ups.status.
C6_OnBatteryIffObToken ==
    res.fn = "is_ups_on_battery" =>
        /\ res.out.exc = "none"
        /\ res.out.val = ("OB" \in StatusTokens(dev))

\* C7 (as claimed): is_battery_low returns false whenever the device is not
\* on battery and ignore_on_battery_check is false; in every other case it
\* returns true exactly when charge <= threshold.
C7_BatteryLowContract ==
    res.fn = "is_ups_battery_low" =>
        /\ res.out.exc = "none"
        /\ res.out.val =
             IF ~is_ups_on_battery(dev).val /\ ~res.arg
             THEN FALSE
             ELSE get_battery_charge_percentage(dev).val
                      <= get_battery_charge_low_percentage(dev).val

\* the description of a known status code, as the specification lists them
Description(code) ==
    CASE code = "OL" -> "On Line"
      [] code = "OB" -> "On Battery"
      [] code = "LB" -> "Low Battery"
      [] code = "CHRG" -> "Charging"
      [] code = "DISCHRG" -> "Discharging"
      [] code = "BYPS" -> "Bypass"
      [] code = "OFF" -> "Offline"
      [] code = "TRIM" -> "SmartTrim"
      [] code = "BOOST" -> "SmartBoost"

RECURSIVE KnownDescriptions(_)
\* the descriptions of the known codes of a token list, in order
KnownDescriptions(toks) ==
    IF toks = <<>> THEN <<>>
    ELSE IF Head(toks) \in KnownCodes
    THEN <<Description(Head(toks))>> \o KnownDescriptions(Tail(toks))
    ELSE KnownDescriptions(Tail(toks))

ExpectedStatus(d) ==
    LET toks == IF "ups.status" \in DOMAIN ShownVars(d)
                THEN str_split(ShownVars(d)["ups.status"]) ELSE <<>>
        known == KnownDescriptions(toks)
    IN  IF known = <<>> THEN "Unknown status" ELSE str_join(", ", known)

StatusIs(d, status) ==
    d.up /\ "ups.status" \in DOMAIN d.vars /\ d.vars["ups.status"] = status

\* C8: status_description() returns the descriptions of the known tokens in
\* input order joined by ", ", unknown tokens dropped, and "Unknown status"
\* when there are no variables, no ups.status, an empty one or only unknown
\* tokens; "OL" gives "On Line", "OB LB" gives "On Battery, Low Battery",
\* "OL ZZZ" gives "On Line".
C8_StatusDescription ==
    res.fn = "get_ups_status" =>
        /\ res.out.exc = "none"
        /\ res.out.val = ExpectedStatus(dev)
        /\ StatusIs(dev, "OL") => res.out.val = "On Line"
        /\ StatusIs(dev, "OB LB") => res.out.val = "On Battery, Low Battery"
        /\ StatusIs(dev, "OL ZZZ") => res.out.val = "On Line"
        /\ (StatusIs(dev, "") \/ StatusIs(dev, "ZZZ NOB") \/ ShownVars(dev) = EmptyDict
               \/ "ups.status" \notin DOMAIN ShownVars(dev)) =>
              res.out.val = "Unknown status"

C8_Witness ==
    /\ res.fn = "get_ups_status"
    /\ StatusIs(dev, "OL ZZZ")
    /\ res.out.val = "On Line"

\* C9: when the protocol call fails, get_ups_vars and
\* get_ups_read_write_vars return the empty mapping and raise nothing; the
\* power draw, the charge and the low-charge threshold are each 0 when
\* their key is absent or the mapping is empty, and raise nothing.
C9_FailSoftDefaults ==
    /\ (res.fn \in {"get_ups_vars", "get_ups_read_write_vars"} /\ ~dev.up) =>
           (res.out.exc = "none" /\ DOMAIN res.out.val = {})
    /\ (res.fn = "get_current_power_draw"
            /\ "ups.realpower" \notin DOMAIN ShownVars(dev)) =>
           res.out = Return(0)
    /\ (res.fn = "get_battery_charge_percentage"
            /\ "battery.charge" \notin DOMAIN ShownVars(dev)) =>
           res.out = Return(0)
    /\ (res.fn = "get_battery_charge_low_percentage"
            /\ "battery.charge.low" \notin DOMAIN ShownRWVars(dev)) =>
           res.out = Return(0)

C9_Witness ==
    /\ res.fn = "get_battery_charge_percentage"
    /\ ~dev.up
    /\ "battery.charge" \in DOMAIN dev.vars
    /\ res.out = Return(0)

\* ------------------------------------------------------------------------
\* Properties of the notifier within the loop
\* ------------------------------------------------------------------------
FailedPosts == {i \in 1..Len(cycle_sent) : cycle_sent[i].http # "2xx"}

\* C10: every notification is POSTed exactly once, delivered or not; a
\* failed delivery raises nothing into the loop, and the loop goes on and
\* records the reading as after a delivery, so that over the whole run
\* each edge has exactly one POST.
C10_OneAttemptPerEvent ==
    /\ \A i, j \in 1..Len(cycle_sent) :
           cycle_sent[i].title = cycle_sent[j].title => i = j
    /\ fault \in {"none", "TypeError"}
    /\ pc = "sleep" =>
           last_ups_on_battery_status = readings[Len(readings)]
    /\ CycleHandled =>
           Len(sent) = UpEdges(readings) + DownEdges(readings)
                           + Count(sent, "Low battery!")
    /\ Count(sent, "Low battery!") <= UpEdges(readings)

C10_Witness ==
    /\ pc = "sleep"
    /\ FailedPosts # {}
    /\ Len(readings) >= 2
    /\ UpEdges(readings) = 2
    /\ Count(sent, "Power outage!") = 2
    /\ last_ups_on_battery_status

\* ------------------------------------------------------------------------
\* Properties of the loop: termination and the recorded state
\* ------------------------------------------------------------------------

\* C11: the loop does not leave its cycle by itself: every statement of the
\* loop has a next statement, the sleep is followed by the next poll, and a
\* step of the loop body leaves the loop only by an uncaught exception; the
\* loop returns ("done") only by the interrupt, which logs the termination.
C11_OnlyInterruptEndsLoop ==
    /\ []((pc \in LoopPcs /\ ~(pc = "poll" /\ Len(readings) >= MaxPolls)) =>
             ENABLED LoopStep)
    /\ [][LoopStep =>
             /\ pc = "sleep" => pc' = "poll"
             /\ pc' \in LoopPcs \/ (pc' = "crashed" /\ fault' # "none")]_vars
    /\ [][(pc' = "done" /\ pc # "done") => Interrupt]_vars
    /\ [](pc = "done" => (fault = "none" /\ last_log = "Script terminated by user."))

C11_Witness ==
    /\ pc = "done"
    /\ last_log = "Script terminated by user."
    /\ Len(readings) >= 2
    /\ Len(sent) >= 1

\* C12: from the comparison to line 92 was_on_battery is the reading of the
\* cycle before (False in the first cycle), the handler chosen is the one
\* of that comparison, and once line 92 has run, transition or not,
\* was_on_battery is the reading taken at the top of the cycle.
C12_PriorStatusAtComparison ==
    LET n == Len(readings)
    IN  /\ pc \in {"outage", "recheck", "low_notify", "low_store", "restoration", "update"} =>
               last_ups_on_battery_status = Before(readings, n)
        /\ pc \in {"outage", "recheck", "low_notify", "low_store"} =>
               (~Before(readings, n) /\ readings[n])
        /\ pc = "restoration" => (Before(readings, n) /\ ~readings[n])
        /\ (pc \in {"sleep", "poll"} /\ n >= 1) =>
               last_ups_on_battery_status = readings[n]

C12_Witness ==
    /\ pc = "sleep"
    /\ Len(readings) >= 2
    /\ readings[Len(readings)] /\ readings[Len(readings) - 1]
    /\ last_ups_on_battery_status

\* the cycle at hand detected a false->true edge and its handler has run
OutageCycleHandled ==
    pc = "update" /\ ~last_ups_on_battery_status /\ current_ups_on_battery_status

\* C13 (as claimed): at the start of a poll cycle after the first,
\* was_battery_low is the strict is_battery_low() of the cycle before; the
\* device has held still since that cycle's poll, so that outcome is the
\* one the device shows now.
C13_LowFlagIsPreviousCycleOutcome ==
    (pc = "poll" /\ readings # <<>> /\ ~dev_changed) =>
        last_ups_low_battery_status = is_ups_battery_low(dev, FALSE).val

\* C13 (amended): outside lines 62-68 was_battery_low is the strict
\* is_battery_low() value the outage handler observed in the latest cycle
\* that detected a false->true edge, False when there was none; that value
\* is the device's when the device held still during that cycle.
C13_LowFlagIsLatestOutageOutcome ==
    /\ (pc \in LoopPcs \ {"low_notify", "low_store"}) =>
           last_ups_low_battery_status = current_ups_low_battery_status
    /\ UpEdges(readings) = 0 => ~last_ups_low_battery_status
    /\ (OutageCycleHandled /\ ~dev_changed) =>
           last_ups_low_battery_status = is_ups_battery_low(dev, FALSE).val

C13_Witness ==
    /\ pc = "poll"
    /\ readings # <<>>
    /\ ~dev_changed
    /\ last_ups_low_battery_status
    /\ ~is_ups_battery_low(dev, FALSE).val
    /\ UpEdges(readings) = 1

\* a "Low battery!" was sent after the latest "Power outage!"
LowSentSinceLastOutage ==
    LET outages == {i \in 1..Len(sent) : FirstLine(sent[i]) = "Power outage!"}
    IN  \E i \in outages :
            /\ \A k \in outages : k <= i
            /\ \E j \in (i + 1)..Len(sent) : FirstLine(sent[j]) = "Low battery!"

\* C14 (as claimed): was_battery_low is true exactly when a "Low battery!"
\* was sent during the on-battery excursion at hand; it is false when a new
\* excursion begins, also after a restoration.
C14_LowFlagTracksExcursion ==
    /\ pc \in {"outage", "recheck"} => ~last_ups_low_battery_status
    /\ (pc \in {"update", "sleep", "poll"} /\ readings # <<>>
            /\ readings[Len(readings)]) =>
           last_ups_low_battery_status = LowSentSinceLastOutage

\* C15: only line 68 writes was_battery_low, and it writes the value the
\* strict is_battery_low() of line 62 returned, notification or not; the
\* restoration handler and the cycles without event leave it alone.
C15_LowFlagWrittenOnlyByOutageHandler ==
    [][/\ pc # "low_store" => last_ups_low_battery_status' = last_ups_low_battery_status
       /\ (pc = "low_store" /\ pc' = "update") =>
              last_ups_low_battery_status' = current_ups_low_battery_status
       /\ (pc = "recheck" /\ pc' = "low_notify") =>
              current_ups_low_battery_status' = is_ups_battery_low(dev, FALSE).val]_vars

C15_Witness ==
    /\ OutageCycleHandled
    /\ ~last_ups_low_battery_status
    /\ Count(sent, "Low battery!") = 1
    /\ Count(CycleTitles, "Low battery!") = 0

\* ------------------------------------------------------------------------
\* Properties of the loop when the device cannot be reached
\* ------------------------------------------------------------------------
Unreachable(d) == ~d.up

OnMains(d) == d.up /\ is_ups_on_battery(d) = Return(FALSE)

\* C16: a poll cycle against an unreachable device and one against a device
\* on mains, the device holding still, send the same titles (the
\* restoration when the status before was on-battery, else nothing) and
\* end in the same monitor state (was_on_battery False, was_battery_low as
\* it was); an on-battery poll after it sends "Power outage!" again.
C16_UnreachableActsAsOnMains ==
    /\ []((pc = "update" /\ ~dev_changed /\ (Unreachable(dev) \/ OnMains(dev))) =>
             CycleTitles = IF last_ups_on_battery_status
                           THEN <<"Power restoration!">> ELSE <<>>)
    /\ []((pc = "sleep" /\ ~dev_changed /\ (Unreachable(dev) \/ OnMains(dev))) =>
             ~last_ups_on_battery_status)
    /\ [][((Unreachable(dev) \/ OnMains(dev)) /\ dev' = dev /\ ~dev_changed') =>
             last_ups_low_battery_status' = last_ups_low_battery_status]_vars
    /\ []((pc = "recheck" /\ Len(readings) >= 2 /\ ~readings[Len(readings) - 1]) =>
             CycleTitles = <<"Power outage!">>)

C16_Witness ==
    /\ pc = "update"
    /\ ~dev_changed
    /\ Unreachable(dev)
    /\ last_ups_on_battery_status
    /\ CycleTitles = <<"Power restoration!">>
    /\ last_ups_low_battery_status

\* C17 (as claimed): with the device unreachable is_on_battery() is false,
\* is_battery_low() is false in both modes, and the numeric readings are 0.
C17_UnreachableMeansAllFine ==
    Unreachable(dev) =>
        /\ res.fn = "is_ups_on_battery" => res.out = Return(FALSE)
        /\ res.fn = "is_ups_battery_low" => res.out = Return(FALSE)
        /\ res.fn \in {"get_current_power_draw", "get_battery_charge_percentage",
                       "get_battery_charge_low_percentage"} => res.out = Return(0)

\* C18: a poll cycle sends nothing, "Power outage!", "Power outage!" then
\* "Low battery!", or "Power restoration!"; "Low battery!" is sent only in a
\* cycle that read a false->true edge, never on a later poll of an outage.
C18_NotificationsPerCycle ==
    LET n == Len(readings)
    IN  /\ Len(cycle_sent) <= 2
        /\ CycleTitles \in {<<>>, <<"Power outage!">>,
                            <<"Power outage!", "Low battery!">>,
                            <<"Power restoration!">>}
        /\ Count(CycleTitles, "Low battery!") > 0 =>
               (~Before(readings, n) /\ readings[n])
        /\ (n >= 2 /\ readings[n - 1] /\ readings[n]) =>
               Count(CycleTitles, "Low battery!") = 0

C18_Witness ==
    /\ pc = "update"
    /\ last_ups_on_battery_status /\ current_ups_on_battery_status
    /\ ~dev_changed
    /\ DeviceLow(dev)
    /\ ~first_low
    /\ Count(sent, "Low battery!") = 0

LowBatteryField(yes) == "Low Battery: <b>" \o (IF yes THEN "Yes" ELSE "No") \o "</b>"

\* C19: the "Low Battery" field of every notification body is
\* charge <= threshold whether or not the UPS is on battery; the value that
\* decides on "Low battery!" is the strict one, false when the re-check finds
\* the UPS not on battery, and "Low battery!" is sent only when it is true.
C19_TwoLowBatteryModes ==
    [][/\ Len(cycle_sent') > Len(cycle_sent) =>
              str_contains(cycle_sent'[Len(cycle_sent')].text,
                           LowBatteryField(DeviceLow(dev)))
       /\ (pc = "recheck" /\ pc' = "low_notify") =>
              current_ups_low_battery_status' =
                  (is_ups_on_battery(dev).val /\ DeviceLow(dev))
       /\ (pc = "low_notify" /\ Len(cycle_sent') > Len(cycle_sent)) =>
              current_ups_low_battery_status]_vars

C19_Witness ==
    /\ pc = "update"
    /\ ~dev_changed
    /\ OnMains(dev)
    /\ CycleTitles = <<"Power restoration!">>
    /\ str_contains(cycle_sent[1].text, LowBatteryField(TRUE))

\* C20 (as claimed): when the loop has ended by an interrupt, the cycle it
\* was in is complete: the reading is recorded in was_on_battery.
C20_InterruptOnlyAtCycleBoundary ==
    (pc = "done" /\ readings # <<>>) =>
        last_ups_on_battery_status = readings[Len(readings)]

\* C20 (amended): the interrupt can be taken at every statement of the
\* loop; it ends the loop at once, leaving was_on_battery, was_battery_low
\* and the notifications as they are at that statement.
C20_InterruptAtAnyStatement ==
    /\ [](pc \in LoopPcs => ENABLED (Next /\ pc' = "done"))
    /\ [][(pc # "done" /\ pc' = "done") =>
             /\ last_log' = "Script terminated by user."
             /\ UNCHANGED <<last_ups_on_battery_status, last_ups_low_battery_status,
                            sent, cycle_sent, readings>>]_vars

C20_Witness ==
    /\ pc = "done"
    /\ CycleTitles = <<"Power outage!">>
    /\ readings[Len(readings)]
    /\ ~last_ups_on_battery_status

====
